---------------------------- MODULE Spec2Model ----------------------------
(***************************************************************************)
(* The Samsung WebSocket remote-control clients of hindhar/remote-control: *)
(*   SamsungTV            (samsung_remote.py)                              *)
(*   SamsungRemote        (tv_controller.py)                               *)
(*   SamsungTVAutomation  (play_iplayer.py)                                *)
(* One client instance lives in one process.  The state is the instance's  *)
(* fields, the transports it has opened, the token file, the coroutines    *)
(* suspended at an await inside a call on the client, and a record of what *)
(* the call that returned in the last step did (its result and the frames  *)
(* it put on the wire).  A call takes one step from each await at which    *)
(* the client's state is read or written afterwards to the next.           *)
(*                                                                         *)
(* Python strings are sequences of one-character strings, so that          *)
(* str.upper, str.lower and str.startswith are computed, not assumed.      *)
(***************************************************************************)
EXTENDS Naturals, Sequences, FiniteSets, Bags

VARIABLES
    prog,        \* the class of the client instance of this process
    ws,          \* self.ws: 0 is None, n > 0 the n-th transport opened
    token,       \* self.token / self._token
    connected,   \* SamsungTV._connected
    tokenFile,   \* content of TOKEN_FILE, None when the file does not exist
    conns,       \* the transports opened by this process, in order
    co,          \* the coroutines suspended at an await, as a bag
    tasks,       \* the calls the script may have in flight at a time
    call,        \* what the call that returned in the last step did
    nav          \* what the navigate_to_app that ended in the last step did

vars == <<prog, ws, token, connected, tokenFile, conns, co, tasks, call, nav>>

(***************************** bounds **************************************)
\* transports one process may open
MaxConns == 2
\* close() calls counted per transport
MaxCloses == 2

(*************************** Python strings ********************************)
LowerLetters == <<"a","b","c","d","e","f","g","h","i","j","k","l","m",
                  "n","o","p","q","r","s","t","u","v","w","x","y","z">>
UpperLetters == <<"A","B","C","D","E","F","G","H","I","J","K","L","M",
                  "N","O","P","Q","R","S","T","U","V","W","X","Y","Z">>

IndexIn(seq, c) == CHOOSE i \in 1..Len(seq) : seq[i] = c
Occurs(seq, c) == \E i \in 1..Len(seq) : seq[i] = c

\* The characters the string operations are defined on.  ASCII from " " (32)
\* to "_" (95) and from "a" (97) to "~" (126), in order; the grave accent
\* (96) cannot be written in a string.
Printable ==
    <<" ", "!", "\"", "#", "$", "%", "&", "'", "(", ")", "*", "+", ",", "-", ".", "/",
      "0", "1", "2", "3", "4", "5", "6", "7", "8", "9", ":", ";", "<", "=", ">", "?",
      "@", "A", "B", "C", "D", "E", "F", "G", "H", "I", "J", "K", "L", "M", "N", "O",
      "P", "Q", "R", "S", "T", "U", "V", "W", "X", "Y", "Z", "[", "\\", "]", "^", "_">>
PrintableLower ==
    <<"a", "b", "c", "d", "e", "f", "g", "h", "i", "j", "k", "l", "m", "n", "o", "p",
      "q", "r", "s", "t", "u", "v", "w", "x", "y", "z", "{", "|", "}", "~">>

\* Latin-1 from the no-break space U+00A0 to U+00FF, in order
Latin1 ==
    <<" ", "¡", "¢", "£", "¤", "¥", "¦", "§", "¨", "©", "ª", "«", "¬", "­", "®", "¯",
      "°", "±", "²", "³", "´", "µ", "¶", "·", "¸", "¹", "º", "»", "¼", "½", "¾", "¿",
      "À", "Á", "Â", "Ã", "Ä", "Å", "Æ", "Ç", "È", "É", "Ê", "Ë", "Ì", "Í", "Î", "Ï",
      "Ð", "Ñ", "Ò", "Ó", "Ô", "Õ", "Ö", "×", "Ø", "Ù", "Ú", "Û", "Ü", "Ý", "Þ", "ß",
      "à", "á", "â", "ã", "ä", "å", "æ", "ç", "è", "é", "ê", "ë", "ì", "í", "î", "ï",
      "ð", "ñ", "ò", "ó", "ô", "õ", "ö", "÷", "ø", "ù", "ú", "û", "ü", "ý", "þ", "ÿ">>

\* the control characters that are whitespace (U+0009 to U+000D, U+001C to
\* U+001F, U+0085), the Greek letter mu, the ogham space mark U+1680 and
\* the euro sign, with their code points
Others ==
    { <<"\t", 9>>, <<"\n", 10>>, <<"", 11>>, <<"\f", 12>>, <<"\r", 13>>,
      <<"", 28>>, <<"", 29>>, <<"", 30>>, <<"", 31>>, <<"", 133>>,
      <<"Μ", 924>>, <<"μ", 956>>, <<" ", 5760>>, <<"€", 8364>> }

Characters ==
    {Printable[i] : i \in 1..Len(Printable)}
        \cup {PrintableLower[i] : i \in 1..Len(PrintableLower)}
        \cup {Latin1[i] : i \in 1..Len(Latin1)}
        \cup {e[1] : e \in Others}

\* ord(c), the code point
OrdOf == [c \in Characters |->
             IF Occurs(Printable, c) THEN 31 + IndexIn(Printable, c)
             ELSE IF Occurs(PrintableLower, c) THEN 96 + IndexIn(PrintableLower, c)
             ELSE IF Occurs(Latin1, c) THEN 159 + IndexIn(Latin1, c)
             ELSE (CHOOSE e \in Others : e[1] = c)[2]]
ord(c) == OrdOf[c]

\* the letters of Latin-1 whose other case is in Latin-1 too
UpperAccented ==
    <<"À", "Á", "Â", "Ã", "Ä", "Å", "Æ", "Ç", "È", "É", "Ê", "Ë", "Ì", "Í", "Î", "Ï",
      "Ð", "Ñ", "Ò", "Ó", "Ô", "Õ", "Ö", "Ø", "Ù", "Ú", "Û", "Ü", "Ý", "Þ">>
LowerAccented ==
    <<"à", "á", "â", "ã", "ä", "å", "æ", "ç", "è", "é", "ê", "ë", "ì", "í", "î", "ï",
      "ð", "ñ", "ò", "ó", "ô", "õ", "ö", "ø", "ù", "ú", "û", "ü", "ý", "þ">>

\* The case mappings of str.upper() and str.lower(), as tables.  The
\* uppercase of a character is a string: that of "ß" is "SS".  That of "ÿ"
\* is U+0178, which cannot be written in a string: "ÿ" has no entry.  No
\* character outside Characters has one.
UpperOf == [c \in Characters \ {"ÿ"} |->
               IF Occurs(LowerLetters, c) THEN <<UpperLetters[IndexIn(LowerLetters, c)]>>
               ELSE IF Occurs(LowerAccented, c) THEN <<UpperAccented[IndexIn(LowerAccented, c)]>>
               ELSE IF c = "ß" THEN <<"S", "S">>
               ELSE IF c \in {"µ", "μ"} THEN <<"Μ">>
               ELSE <<c>>]
LowerOf == [c \in Characters |->
               IF Occurs(UpperLetters, c) THEN LowerLetters[IndexIn(UpperLetters, c)]
               ELSE IF Occurs(UpperAccented, c) THEN LowerAccented[IndexIn(UpperAccented, c)]
               ELSE IF c = "Μ" THEN "μ"
               ELSE c]

upper_char(c) == UpperOf[c]
lower_char(c) == LowerOf[c]

\* str.upper(), str.lower()
RECURSIVE upper(_)
upper(s) == IF s = <<>> THEN <<>> ELSE upper_char(Head(s)) \o upper(Tail(s))
lower(s) == [i \in 1..Len(s) |-> lower_char(s[i])]

\* str.startswith(p)
startswith(s, p) == Len(s) >= Len(p) /\ SubSeq(s, 1, Len(p)) = p

\* str.strip(): leading and trailing whitespace removed.  The whitespace is
\* " ", U+0009 to U+000D, U+001C to U+001F, U+0085, U+00A0 and U+1680; the
\* space separators that are left (U+2000 to U+200A, U+2028, U+2029, U+202F,
\* U+205F, U+3000) cannot be written in a string.
IsSpace(c) == c \in {" ", "\t", "\n", "", "\f", "\r", "", "", "", "", "", " ", " "}
RECURSIVE lstrip(_)
lstrip(s) == IF s # <<>> /\ IsSpace(Head(s)) THEN lstrip(Tail(s)) ELSE s
RECURSIVE rstrip(_)
rstrip(s) == IF s # <<>> /\ IsSpace(s[Len(s)]) THEN rstrip(SubSeq(s, 1, Len(s) - 1)) ELSE s
strip(s) == rstrip(lstrip(s))

\* dict.get(k, default) on a table of <<key, value>> pairs
dict_get(d, k, default) ==
    IF \E e \in d : e[1] = k THEN (CHOOSE e \in d : e[1] = k)[2] ELSE default

\* Python's None where a string is expected, and its truth value
None == <<"None">>
Truthy(x) == x # None /\ x # <<>>

KEY_ == <<"K", "E", "Y", "_">>

(***************************** tables **************************************)
KEYS ==
    { <<<<"p", "o", "w", "e", "r">>, <<"K", "E", "Y", "_", "P", "O", "W", "E", "R">>>>,
      <<<<"p", "o", "w", "e", "r", "o", "f", "f">>, <<"K", "E", "Y", "_", "P", "O", "W", "E", "R", "O", "F", "F">>>>,
      <<<<"u", "p">>, <<"K", "E", "Y", "_", "U", "P">>>>,
      <<<<"d", "o", "w", "n">>, <<"K", "E", "Y", "_", "D", "O", "W", "N">>>>,
      <<<<"l", "e", "f", "t">>, <<"K", "E", "Y", "_", "L", "E", "F", "T">>>>,
      <<<<"r", "i", "g", "h", "t">>, <<"K", "E", "Y", "_", "R", "I", "G", "H", "T">>>>,
      <<<<"e", "n", "t", "e", "r">>, <<"K", "E", "Y", "_", "E", "N", "T", "E", "R">>>>,
      <<<<"r", "e", "t", "u", "r", "n">>, <<"K", "E", "Y", "_", "R", "E", "T", "U", "R", "N">>>>,
      <<<<"e", "x", "i", "t">>, <<"K", "E", "Y", "_", "E", "X", "I", "T">>>>,
      <<<<"h", "o", "m", "e">>, <<"K", "E", "Y", "_", "H", "O", "M", "E">>>>,
      <<<<"m", "e", "n", "u">>, <<"K", "E", "Y", "_", "M", "E", "N", "U">>>>,
      <<<<"s", "o", "u", "r", "c", "e">>, <<"K", "E", "Y", "_", "S", "O", "U", "R", "C", "E">>>>,
      <<<<"v", "o", "l", "u", "p">>, <<"K", "E", "Y", "_", "V", "O", "L", "U", "P">>>>,
      <<<<"v", "o", "l", "d", "o", "w", "n">>, <<"K", "E", "Y", "_", "V", "O", "L", "D", "O", "W", "N">>>>,
      <<<<"m", "u", "t", "e">>, <<"K", "E", "Y", "_", "M", "U", "T", "E">>>>,
      <<<<"c", "h", "u", "p">>, <<"K", "E", "Y", "_", "C", "H", "U", "P">>>>,
      <<<<"c", "h", "d", "o", "w", "n">>, <<"K", "E", "Y", "_", "C", "H", "D", "O", "W", "N">>>>,
      <<<<"0">>, <<"K", "E", "Y", "_", "0">>>>,
      <<<<"1">>, <<"K", "E", "Y", "_", "1">>>>,
      <<<<"2">>, <<"K", "E", "Y", "_", "2">>>>,
      <<<<"3">>, <<"K", "E", "Y", "_", "3">>>>,
      <<<<"4">>, <<"K", "E", "Y", "_", "4">>>>,
      <<<<"5">>, <<"K", "E", "Y", "_", "5">>>>,
      <<<<"6">>, <<"K", "E", "Y", "_", "6">>>>,
      <<<<"7">>, <<"K", "E", "Y", "_", "7">>>>,
      <<<<"8">>, <<"K", "E", "Y", "_", "8">>>>,
      <<<<"9">>, <<"K", "E", "Y", "_", "9">>>>,
      <<<<"p", "l", "a", "y">>, <<"K", "E", "Y", "_", "P", "L", "A", "Y">>>>,
      <<<<"p", "a", "u", "s", "e">>, <<"K", "E", "Y", "_", "P", "A", "U", "S", "E">>>>,
      <<<<"s", "t", "o", "p">>, <<"K", "E", "Y", "_", "S", "T", "O", "P">>>>,
      <<<<"r", "e", "d">>, <<"K", "E", "Y", "_", "R", "E", "D">>>>,
      <<<<"g", "r", "e", "e", "n">>, <<"K", "E", "Y", "_", "G", "R", "E", "E", "N">>>>,
      <<<<"y", "e", "l", "l", "o", "w">>, <<"K", "E", "Y", "_", "Y", "E", "L", "L", "O", "W">>>>,
      <<<<"b", "l", "u", "e">>, <<"K", "E", "Y", "_", "B", "L", "U", "E">>>>,
      <<<<"a", "p", "p", "s">>, <<"K", "E", "Y", "_", "A", "P", "P", "S">>>>,
      <<<<"i", "n", "f", "o">>, <<"K", "E", "Y", "_", "I", "N", "F", "O">>>>,
      <<<<"g", "u", "i", "d", "e">>, <<"K", "E", "Y", "_", "G", "U", "I", "D", "E">>>> }

SamsungRemote_APPS ==
    { <<<<"n", "e", "t", "f", "l", "i", "x">>, <<"3", "2", "0", "1", "9", "0", "7", "0", "1", "8", "8", "0", "7">>>>,
      <<<<"y", "o", "u", "t", "u", "b", "e">>, <<"1", "1", "1", "2", "9", "9", "0", "0", "1", "9", "1", "2">>>>,
      <<<<"p", "r", "i", "m", "e">>, <<"3", "2", "0", "1", "9", "1", "0", "0", "1", "9", "3", "6", "5">>>>,
      <<<<"d", "i", "s", "n", "e", "y">>, <<"3", "2", "0", "1", "9", "0", "1", "0", "1", "7", "6", "4", "0">>>>,
      <<<<"p", "l", "e", "x">>, <<"3", "2", "0", "1", "5", "1", "2", "0", "0", "6", "9", "6", "3">>>>,
      <<<<"s", "p", "o", "t", "i", "f", "y">>, <<"3", "2", "0", "1", "6", "0", "6", "0", "0", "9", "6", "8", "4">>>> }

APPS ==
    { <<<<"i", "p", "l", "a", "y", "e", "r">>, <<"3", "2", "0", "1", "6", "0", "2", "0", "0", "7", "8", "6", "5">>>>,
      <<<<"n", "e", "t", "f", "l", "i", "x">>, <<"3", "2", "0", "1", "9", "0", "7", "0", "1", "8", "8", "0", "7">>>>,
      <<<<"y", "o", "u", "t", "u", "b", "e">>, <<"1", "1", "1", "2", "9", "9", "0", "0", "1", "9", "1", "2">>>>,
      <<<<"p", "r", "i", "m", "e">>, <<"3", "2", "0", "1", "9", "1", "0", "0", "1", "9", "3", "6", "5">>>>,
      <<<<"d", "i", "s", "n", "e", "y">>, <<"3", "2", "0", "1", "9", "0", "1", "0", "1", "7", "6", "4", "0">>>> }

APP_POSITIONS ==
    { <<<<"s", "m", "a", "r", "t", "t", "h", "i", "n", "g", "s">>, 0>>,
      <<<<"s", "a", "m", "s", "u", "n", "g", "_", "t", "v", "_", "p", "l", "u", "s">>, 1>>,
      <<<<"n", "e", "t", "f", "l", "i", "x">>, 2>>,
      <<<<"p", "r", "i", "m", "e">>, 3>>,
      <<<<"i", "p", "l", "a", "y", "e", "r">>, 4>>,
      <<<<"i", "t", "v", "x">>, 5>>,
      <<<<"d", "i", "s", "n", "e", "y">>, 6>>,
      <<<<"n", "o", "w">>, 7>>,
      <<<<"r", "a", "k", "u", "t", "e", "n">>, 8>>,
      <<<<"y", "o", "u", "t", "u", "b", "e">>, 9>>,
      <<<<"a", "l", "e", "x", "a">>, 10>>,
      <<<<"c", "h", "a", "n", "n", "e", "l", "4">>, 11>> }

(*********************** the handshake environment *************************)
\* Tokens the TV may issue
Tokens == { <<"7">>, <<"8">> }

\* What one connect() attempt meets.  "at" is how far it gets:
\*   no_module     import websockets raises ImportError
\*   imported      import websockets succeeds, websockets.connect is awaited
\*   opened        websockets.connect returns a transport, recv is awaited
\*   open_timeout  websockets.connect times out      (no transport)
\*   open_error    websockets.connect raises         (no transport)
\*   recv_timeout  the transport opens, no message within the timeout
\*   recv_closed   the transport opens, the TV closes it before any message
\*   message       the transport opens and a first message arrives:
\*       json   malformed | array (valid JSON, not an object) | object
\*       event  the object's "event" ("" when absent)
\*       data   absent | null | dict   (the object's "data")
\*       tok    the dict's "token" (None when absent or null)
NoMsg == [json |-> "", event |-> "", data |-> "", tok |-> None]
Env(at) == [at |-> at, msg |-> NoMsg]
Message(j, ev, d, t) == [at |-> "message", msg |-> [json |-> j, event |-> ev, data |-> d, tok |-> t]]

ConnectEnvs ==
    { Env("no_module"), Env("open_timeout"), Env("open_error"),
      Env("recv_timeout"), Env("recv_closed"),
      Message("malformed", "", "", None),
      Message("array", "", "", None),
      Message("object", "ms.channel.unauthorized", "absent", None),
      Message("object", "ms.channel.connect", "absent", None),
      Message("object", "ms.channel.connect", "null", None),
      Message("object", "ms.channel.connect", "dict", None) }
    \cup { Message("object", "ms.channel.connect", "dict", t) : t \in Tokens }

\* the connect attempt opens a transport
Opens(e) == e.at \in {"recv_timeout", "recv_closed", "message"}

\* what connect() meets up to each of its awaits: at the import, when
\* websockets.connect returns or raises, when recv returns or raises
Imports == {Env("no_module"), Env("imported")}
Opening == {Env("open_timeout"), Env("open_error"), Env("opened")}
Receiving == {e \in ConnectEnvs : Opens(e)}

\* json.loads(response) raises
JsonRaises(e) == e.at = "message" /\ e.msg.json = "malformed"

\* data.get("event") == "ms.channel.connect"; data.get raises on a non-object
EventRaises(e) == e.at = "message" /\ e.msg.json = "array"
EventMatches(e) == e.at = "message" /\ e.msg.json = "object" /\ e.msg.event = "ms.channel.connect"

\* data.get("data", {}).get("token"): raises when "data" is null
TokenRaises(e) == EventMatches(e) /\ e.msg.data = "null"
TokenOf(e) == IF e.msg.data = "dict" THEN e.msg.tok ELSE None


(***************************** the state ***********************************)
\* a transport: open until closed by either side; shaken once a connect()
\* that awaited its first message returned True; closes counts the client's
\* close() calls on it
NewConn == [open |-> TRUE, shaken |-> FALSE, closes |-> 0]

\* The record of a call, as it starts: the operation and its argument; its
\* result ("True", "False", "None", or "raise" when an exception leaves it);
\* the result of the connect() a command ran first (inner); what that
\* connect attempt met (env); whether a failure cause was printed (said);
\* the connect attempts made (connects), the transports opened, messages
\* awaited, token files written and ws.close() calls made; every ws.send
\* attempted, in order; the await the call is suspended at (pc: "open" in
\* websockets.connect, "recv" in ws.recv, "close" in ws.close, "sleep" in
\* asyncio.sleep, "" when it is running or has returned); and the transport
\* its connect() opened (conn, 0 when none).
Begin(op, arg) ==
    [op |-> op, arg |-> arg, ret |-> "", inner |-> "", env |-> Env(""), said |-> FALSE,
     connects |-> 0, opened |-> 0, recvs |-> 0, saved |-> 0, closed |-> 0, sent |-> <<>>,
     pc |-> "", conn |-> 0]

\* no call returned in the step just taken
NoCall == Begin("", <<>>)

\* the client's state as one record
State == [ws |-> ws, token |-> token, connected |-> connected,
          tokenFile |-> tokenFile, conns |-> conns, call |-> call]

\* navigate_to_app is not running.  While it runs, pc is the key it is
\* sending; once it has ended, ret is its result ("True", "False", or
\* "raise") and sent the key codes it put on the wire.
NotNavigating ==
    [pc |-> "idle", app_name |-> <<>>, position |-> 0, i |-> 0,
     was_connected |-> FALSE, ret |-> "", sent |-> <<>>]

\* a coroutine suspended at an await: the call it is in, and where it stands
\* in navigate_to_app when that is what it runs
Coroutine(c, n) == [call |-> c, nav |-> n]

\* between two keys of navigate_to_app the coroutine is in key's
\* asyncio.sleep
Sleeping == [NoCall EXCEPT !.pc = "sleep"]

\* the coroutines suspended at pc
Pending(pc) == { k \in BagToSet(co) : k.call.pc = pc }

Set(s) ==
    /\ ws' = s.ws
    /\ token' = s.token
    /\ connected' = s.connected
    /\ tokenFile' = s.tokenFile
    /\ conns' = s.conns
    /\ UNCHANGED <<prog, tasks>>

Return(s, r) == [s EXCEPT !.call.ret = r]
Say(s) == [s EXCEPT !.call.said = TRUE]
Raised(s) == s.call.ret = "raise"

\* the call gives the event loop control at an await
Await(s, pc) == [s EXCEPT !.call.pc = pc]
Suspended(s) == s.call.pc # ""

\* the event loop gives control back to coroutine k
Resume(k) == [State EXCEPT !.call = [k.call EXCEPT !.pc = ""]]

(************************* samsung_remote.py *******************************)
\* f.read() of a file opened in text mode: "\r\n" and "\r" are read as "\n"
RECURSIVE read(_)
read(f) ==
    IF f = <<>> THEN <<>>
    ELSE IF Head(f) = "\r"
    THEN <<"\n">> \o read(IF Len(f) > 1 /\ f[2] = "\n" THEN Tail(Tail(f)) ELSE Tail(f))
    ELSE <<Head(f)>> \o read(Tail(f))

load_token == IF tokenFile # None THEN strip(read(tokenFile)) ELSE None

save_token(s, t) == [s EXCEPT !.tokenFile = t, !.call.saved = @ + 1]

\* websockets.connect(...) succeeded: self.ws = <the new transport>
Open(s) == [s EXCEPT !.conns = Append(@, NewConn), !.ws = Len(s.conns) + 1,
                     !.call.conn = Len(s.conns) + 1, !.call.opened = @ + 1]

\* self.ws.recv() on the transport just opened has returned or raised: the
\* TV closing the transport closes it
Recv(s, e) == [s EXCEPT !.call.recvs = @ + 1,
                        !.conns[s.call.conn].open = @ /\ (e.at # "recv_closed")]

RecvRaises(e) == e.at \in {"recv_timeout", "recv_closed"}
OpenRaises(e) == e.at \in {"open_timeout", "open_error"}

Shaken(s) == [s EXCEPT !.conns[s.call.conn].shaken = TRUE]

\* connect() up to its first await, of websockets.connect
SamsungTV_connect(s0, e) ==
    LET s == [s0 EXCEPT !.call.env = e, !.call.connects = @ + 1] IN
    IF s0.connected THEN Return(s0, "True")
    ELSE IF e.at = "no_module" THEN Return(Say(s), "False")
    ELSE Await(s, "open")

\* websockets.connect has returned or raised; on to the await of recv
SamsungTV_connect_opened(s0, e) ==
    LET s == [s0 EXCEPT !.call.env = e] IN
    IF OpenRaises(e) THEN Return(Say(s), "False")
    ELSE Await(Open(s), "recv")

\* recv has returned or raised; to the end of connect()
SamsungTV_connect_received(s0, e) ==
    LET o == Recv([s0 EXCEPT !.call.env = e], e) IN
    IF RecvRaises(e) \/ JsonRaises(e) \/ EventRaises(e) THEN Return(Say(o), "False")
    ELSE IF ~EventMatches(e) THEN Return(o, "None")
    ELSE IF TokenRaises(e) THEN Return(Say(o), "False")
    ELSE LET new_token == TokenOf(e)
             t == IF Truthy(new_token) /\ new_token # o.token
                  THEN save_token([o EXCEPT !.token = new_token], new_token)
                  ELSE o
         IN Return(Shaken([t EXCEPT !.connected = TRUE]), "True")

(************************** tv_controller.py *******************************)
SamsungRemote_connect(s0, e) ==
    LET s == [s0 EXCEPT !.call.env = e, !.call.connects = @ + 1] IN
    IF e.at = "no_module" THEN Return(Say(s), "False")
    ELSE Await(s, "open")

SamsungRemote_connect_opened(s0, e) ==
    LET s == [s0 EXCEPT !.call.env = e] IN
    IF OpenRaises(e) THEN Return(Say(s), "False")
    ELSE Await(Open(s), "recv")

SamsungRemote_connect_received(s0, e) ==
    LET o == Recv([s0 EXCEPT !.call.env = e], e) IN
    IF RecvRaises(e) \/ JsonRaises(e) \/ EventRaises(e) THEN Return(Say(o), "False")
    ELSE IF ~EventMatches(e) THEN Return(o, "False")
    ELSE IF TokenRaises(e) THEN Return(Say(o), "False")
    ELSE Return(Shaken([o EXCEPT !.token = TokenOf(e)]), "True")

(*************************** play_iplayer.py *******************************)
SamsungTVAutomation_connect(s0, e) ==
    LET s == [s0 EXCEPT !.call.env = e, !.call.connects = @ + 1] IN
    IF e.at = "no_module" THEN Return(Say(s), "False")
    ELSE Await(s, "open")

SamsungTVAutomation_connect_opened(s0, e) ==
    LET s == [s0 EXCEPT !.call.env = e] IN
    IF OpenRaises(e) THEN Return(s, "raise")
    ELSE Await(Open(s), "recv")

SamsungTVAutomation_connect_received(s0, e) ==
    LET o == Recv([s0 EXCEPT !.call.env = e], e) IN
    IF RecvRaises(e) \/ JsonRaises(e) \/ EventRaises(e) THEN Return(o, "raise")
    ELSE IF ~EventMatches(e) THEN Return(o, "False")
    ELSE IF TokenRaises(e) THEN Return(o, "raise")
    ELSE Return(Shaken([o EXCEPT !.token = TokenOf(e)]), "True")

(****************************** frames *************************************)
Digits == <<"0","1","2","3","4","5","6","7","8","9">>

\* the UTF-8 bytes of one character
utf8(c) ==
    LET n == ord(c) IN
    IF n < 128 THEN <<n>>
    ELSE IF n < 2048 THEN <<192 + (n \div 64), 128 + (n % 64)>>
    ELSE <<224 + (n \div 4096), 128 + ((n \div 64) % 64), 128 + (n % 64)>>

\* str.encode(): the UTF-8 bytes of the string
RECURSIVE encode(_)
encode(s) == IF s = <<>> THEN <<>> ELSE utf8(Head(s)) \o encode(Tail(s))

B64 == UpperLetters \o LowerLetters \o Digits \o <<"+", "/">>

\* base64.b64encode(bytes).decode()
RECURSIVE b64encode(_)
b64encode(b) ==
    IF b = <<>> THEN <<>>
    ELSE IF Len(b) = 1 THEN
        <<B64[(b[1] \div 4) + 1], B64[(b[1] % 4) * 16 + 1], "=", "=">>
    ELSE IF Len(b) = 2 THEN
        <<B64[(b[1] \div 4) + 1], B64[(b[1] % 4) * 16 + (b[2] \div 16) + 1],
          B64[(b[2] % 16) * 4 + 1], "=">>
    ELSE
        <<B64[(b[1] \div 4) + 1], B64[(b[1] % 4) * 16 + (b[2] \div 16) + 1],
          B64[(b[2] % 16) * 4 + (b[3] \div 64) + 1], B64[(b[3] % 64) + 1]>>
        \o b64encode(SubSeq(b, 4, Len(b)))

\* the payload dicts handed to json.dumps, absent keys empty
NoFrame == [method |-> "", Cmd |-> <<>>, DataOfCmd |-> <<>>, Option |-> "",
            TypeOfRemote |-> "", event |-> "", to |-> "", appId |-> <<>>,
            action_type |-> ""]

KeyFrame(key_code) ==
    [NoFrame EXCEPT !.method = "ms.remote.control",
                    !.Cmd = <<"C", "l", "i", "c", "k">>,
                    !.DataOfCmd = key_code,
                    !.Option = "false",
                    !.TypeOfRemote = "SendRemoteKey"]

TextFrame(text) ==
    [NoFrame EXCEPT !.method = "ms.remote.control",
                    !.Cmd = b64encode(encode(text)),
                    !.DataOfCmd = <<"b", "a", "s", "e", "6", "4">>,
                    !.TypeOfRemote = "SendInputString"]

AppFrame(app_id) ==
    [NoFrame EXCEPT !.method = "ms.channel.emit",
                    !.event = "ed.apps.launch",
                    !.to = "host",
                    !.appId = app_id,
                    !.action_type = "DEEP_LINK"]

\* await self.ws.send(json.dumps(payload)).  self.ws is None: AttributeError.
\* The transport is closed, or fails while sending (ok = FALSE):
\* ConnectionClosed.  Otherwise the frame is on the wire.  The record of the
\* attempt keeps the transport and what it was when the send began.
Send(s, frame, ok) ==
    IF s.ws = 0 THEN Return(s, "raise")
    ELSE LET c == s.conns[s.ws]
             delivered == c.open /\ ok
             t == [s EXCEPT !.call.sent = Append(@,
                        [conn |-> s.ws, was |-> c, delivered |-> delivered,
                         frame |-> frame]),
                      !.conns[s.ws].open = delivered]
         IN IF delivered THEN t ELSE Return(t, "raise")

\* a command's own connect() has returned: its result is kept beside the
\* command's
Inner(s) == [s EXCEPT !.call.inner = s.call.ret, !.call.ret = ""]

(************************* samsung_remote.py *******************************)
SamsungTV_normalize(key_name) ==
    IF ~startswith(key_name, KEY_) THEN KEY_ \o upper(key_name) ELSE key_name

\* a connect() that returned without success is called once more
SamsungTV_ensure_retrying(s, e) ==
    IF s.connected THEN s
    ELSE LET c == SamsungTV_connect(s, e)
         IN IF Suspended(c) THEN c
            ELSE IF c.call.ret = "True" THEN Inner(c)
            ELSE Inner(SamsungTV_connect(Inner(c), e))

\* if not self._connected: await self.connect(), up to connect's first await
SamsungTV_ensure(s, e) ==
    IF ~s.connected
    THEN LET c == SamsungTV_connect(s, e) IN IF Suspended(c) THEN c ELSE Inner(c)
    ELSE s

\* key, text and app after their connect(): the frame is built and sent.
\* The asyncio.sleep that follows touches nothing of the client.
SamsungTV_key_send(s, key_name, ok) ==
    LET t == Send(s, KeyFrame(SamsungTV_normalize(key_name)), ok)
    IN IF Raised(t) THEN t ELSE Return(t, "None")

SamsungTV_text_send(s, text, ok) ==
    LET t == Send(s, TextFrame(text), ok)
    IN IF Raised(t) THEN t ELSE Return(t, "None")

SamsungTV_resolve(app_id) == dict_get(APPS, lower(app_id), app_id)

SamsungTV_app_send(s, app_id, ok) ==
    LET t == Send(s, AppFrame(SamsungTV_resolve(app_id)), ok)
    IN IF Raised(t) THEN t ELSE Return(t, "None")

SamsungTV_key(s, key_name, e, ok) ==
    LET c == SamsungTV_ensure(s, e)
    IN IF Suspended(c) THEN c ELSE SamsungTV_key_send(c, key_name, ok)

SamsungTV_text(s, text, e, ok) ==
    LET c == SamsungTV_ensure(s, e)
    IN IF Suspended(c) THEN c ELSE SamsungTV_text_send(c, text, ok)

SamsungTV_app(s, app_id, e, ok) ==
    LET c == SamsungTV_ensure(s, e)
    IN IF Suspended(c) THEN c ELSE SamsungTV_app_send(c, app_id, ok)

\* a step of connect() has been taken inside the call c.call.op: when
\* connect() has returned into a command, the command goes on
SamsungTV_resumed(c, ok) ==
    IF Suspended(c) \/ c.call.op = "connect" THEN c
    ELSE IF c.call.op = "key" THEN SamsungTV_key_send(Inner(c), c.call.arg, ok)
    ELSE IF c.call.op = "text" THEN SamsungTV_text_send(Inner(c), c.call.arg, ok)
    ELSE SamsungTV_app_send(Inner(c), c.call.arg, ok)

\* ws.close() on the held handle, whatever its state
CloseWs(s) == [s EXCEPT !.conns[s.ws].open = FALSE, !.conns[s.ws].closes = @ + 1,
                        !.call.closed = @ + 1]

\* nothing follows the await of ws.close()
SamsungTV_close(s) == Return(IF s.ws # 0 THEN CloseWs(s) ELSE s, "None")

(************************** tv_controller.py *******************************)
SamsungRemote_normalize(key) == dict_get(KEYS, lower(key), KEY_ \o upper(key))

SamsungRemote_send_key(s, key, ok) ==
    IF s.ws = 0 THEN Return(s, "False")
    ELSE LET t == Send(s, KeyFrame(SamsungRemote_normalize(key)), ok)
         IN IF Raised(t) THEN t ELSE Return(t, "True")

\* the miss passes the lowercased name on, not the name as given
SamsungRemote_resolve_lowered(app_name) ==
    dict_get(SamsungRemote_APPS, lower(app_name), lower(app_name))

SamsungRemote_resolve(app_name) == dict_get(SamsungRemote_APPS, lower(app_name), app_name)

SamsungRemote_launch_app(s, app_name, ok) ==
    IF s.ws = 0 THEN Return(s, "False")
    ELSE LET t == Send(s, AppFrame(SamsungRemote_resolve(app_name)), ok)
         IN IF Raised(t) THEN t ELSE Return(t, "True")

\* disconnect() up to the await of ws.close()
SamsungRemote_disconnect(s) ==
    IF s.ws # 0 THEN Await(CloseWs(s), "close") ELSE Return(s, "None")

\* ws.close() has returned: self.ws = None
SamsungRemote_disconnect_closed(s) == Return([s EXCEPT !.ws = 0], "None")

(*************************** play_iplayer.py *******************************)
IPLAYER_APP_ID == <<"3","2","0","1","6","0","2","0","0","7","8","6","5">>

SamsungTVAutomation_normalize(key) ==
    IF ~startswith(key, KEY_) THEN KEY_ \o upper(key) ELSE key

SamsungTVAutomation_send_key(s, key, ok) ==
    LET t == Send(s, KeyFrame(SamsungTVAutomation_normalize(key)), ok)
    IN IF Raised(t) THEN t ELSE Return(t, "None")

SamsungTVAutomation_send_text(s, text, ok) ==
    LET t == Send(s, TextFrame(text), ok)
    IN IF Raised(t) THEN t ELSE Return(t, "None")

SamsungTVAutomation_launch_app(s, app_id, ok) ==
    LET t == Send(s, AppFrame(app_id), ok)
    IN IF Raised(t) THEN t ELSE Return(t, "None")

SamsungTVAutomation_close(s) == Return(IF s.ws # 0 THEN CloseWs(s) ELSE s, "None")

(***************************** the inputs **********************************)
\* a key name without the prefix, and one with it that is not uppercase
KeyNames == { <<"e","n","t","e","r">>, <<"K","E","Y","_","u","p">> }

\* a name of the tables, and an identifier of none of them
AppNames == { <<"i","p","l","a","y","e","r">>, <<"M","y","A","p","p">> }

Texts == { <<"H","i">> }

\* an app of APP_POSITIONS (at position 2), and a name whose normalized
\* form "samsung_tv" is not in it
NavApps ==
    { <<"N","e","t","f","l","i","x">>,
      <<"S","a","m","s","u","n","g"," ","T","V","+">> }

Progs == {"SamsungTV", "SamsungRemote", "SamsungTVAutomation"}

(***************************** the steps ***********************************)
Start(op, arg) == [State EXCEPT !.call = Begin(op, arg)]

\* websockets.connect needs room under the bound to open a transport
Room(e) == e.at = "opened" => Len(conns) < MaxConns

\* what a command's connect() may meet first; nothing when it is skipped
EnvsOf(skipped) == IF skipped THEN {Env("")} ELSE Imports
CanClose == ws # 0 => conns[ws].closes < MaxCloses

\* the key codes of the frames a call put on the wire
RECURSIVE Codes(_)
Codes(sent) ==
    IF sent = <<>> THEN <<>>
    ELSE (IF Head(sent).delivered THEN <<Head(sent).frame.DataOfCmd>> ELSE <<>>)
         \o Codes(Tail(sent))

\* a caller is free to make a call: each caller awaits the call it made
Free == BagCardinality(co) < tasks

\* One step of a coroutine: olds is the coroutine resumed (none for a new
\* call, which needs a free caller), r the client and the call after the
\* step, n its place in navigate_to_app.  The call is suspended at an await
\* or has returned; a key that returned inside navigate_to_app ends it with
\* its exception, ends it after ENTER with True, and otherwise leaves it in
\* key's sleep.
Step(olds, r, n) ==
    LET rest == co (-) olds
        sent == n.sent \o Codes(r.call.sent)
        Suspend(k) == co' = rest (+) SetToBag({k})
    IN /\ olds = EmptyBag => Free
       /\ Set(r)
       /\ IF Suspended(r) THEN
              /\ Suspend(Coroutine(r.call, n))
              /\ call' = NoCall
              /\ nav' = NotNavigating
          ELSE IF n.pc = "idle" THEN
              /\ co' = rest
              /\ call' = r.call
              /\ nav' = NotNavigating
          ELSE IF Raised(r) THEN
              /\ co' = rest
              /\ call' = r.call
              /\ nav' = [n EXCEPT !.pc = "idle", !.ret = "raise", !.sent = sent]
          ELSE IF n.pc = "ENTER" THEN
              /\ co' = rest
              /\ call' = r.call
              /\ nav' = [n EXCEPT !.pc = "idle", !.ret = "True", !.sent = sent]
          ELSE
              /\ Suspend(Coroutine(Sleeping, [n EXCEPT !.sent = sent]))
              /\ call' = r.call
              /\ nav' = NotNavigating

\* The script is run again: SamsungTV.__init__, SamsungRemote.__init__ or
\* SamsungTVAutomation.__init__ in a new process.  The old process's
\* transports and coroutines are gone, the token file stays.
New ==
    /\ UNCHANGED prog
    /\ ws' = 0
    /\ token' = IF prog = "SamsungTV" THEN load_token ELSE None
    /\ connected' = FALSE
    /\ conns' = <<>>
    /\ co' = EmptyBag
    /\ call' = Begin("__init__", <<>>)
    /\ nav' = NotNavigating
    /\ UNCHANGED <<tokenFile, tasks>>

(************************* samsung_remote.py *******************************)
Call_SamsungTV_connect ==
    /\ prog = "SamsungTV"
    /\ \E e \in EnvsOf(connected) :
        Step(EmptyBag, SamsungTV_connect(Start("connect", <<>>), e), NotNavigating)

Call_SamsungTV_key ==
    /\ prog = "SamsungTV"
    /\ \E k \in KeyNames, e \in EnvsOf(connected), ok \in BOOLEAN :
        Step(EmptyBag, SamsungTV_key(Start("key", k), k, e, ok), NotNavigating)

Call_SamsungTV_text ==
    /\ prog = "SamsungTV"
    /\ \E x \in Texts, e \in EnvsOf(connected), ok \in BOOLEAN :
        Step(EmptyBag, SamsungTV_text(Start("text", x), x, e, ok), NotNavigating)

Call_SamsungTV_app ==
    /\ prog = "SamsungTV"
    /\ \E a \in AppNames, e \in EnvsOf(connected), ok \in BOOLEAN :
        Step(EmptyBag, SamsungTV_app(Start("app", a), a, e, ok), NotNavigating)

Call_SamsungTV_close ==
    /\ prog = "SamsungTV"
    /\ CanClose
    /\ Step(EmptyBag, SamsungTV_close(Start("close", <<>>)), NotNavigating)

\* websockets.connect returns to, or raises in, a connect() that awaits it
SamsungTV_opened ==
    /\ prog = "SamsungTV"
    /\ \E k \in Pending("open"), e \in Opening, ok \in BOOLEAN :
        /\ Room(e)
        /\ Step(SetToBag({k}),
                SamsungTV_resumed(SamsungTV_connect_opened(Resume(k), e), ok), k.nav)

\* ws.recv returns to, or raises in, a connect() that awaits it
SamsungTV_received ==
    /\ prog = "SamsungTV"
    /\ \E k \in Pending("recv"), e \in Receiving, ok \in BOOLEAN :
        Step(SetToBag({k}),
             SamsungTV_resumed(SamsungTV_connect_received(Resume(k), e), ok), k.nav)

(********************* navigate_to_app (samsung_remote.py) ******************)
\* str.replace(old, new) for a one-character old
RECURSIVE replace(_, _, _)
replace(s, old, new) ==
    IF s = <<>> THEN <<>>
    ELSE (IF Head(s) = old THEN new ELSE <<Head(s)>>) \o replace(Tail(s), old, new)

app_key(app_name) == replace(replace(lower(app_name), " ", <<"_">>), "+", <<>>)

\* position = APP_POSITIONS.get(app_key), and whether it is None
position(app_name) == dict_get(APP_POSITIONS, app_key(app_name), None)
position_is_None(app_name) == \A e \in APP_POSITIONS : e[1] # app_key(app_name)

\* await tv.key(key_name, delay) inside navigate_to_app, by the coroutine
\* olds, which is at n
NavKey(olds, n, key_name) ==
    \E e \in EnvsOf(connected), ok \in BOOLEAN :
        Step(olds, SamsungTV_key(Start("key", key_name), key_name, e, ok), n)

\* navigate_to_app(tv, app_name) up to its first await, in tv.key("HOME")
Call_navigate_to_app ==
    /\ prog = "SamsungTV"
    /\ Free
    /\ \E app_name \in NavApps :
        LET n == [NotNavigating EXCEPT !.app_name = app_name,
                                       !.was_connected = connected,
                                       !.position = position(app_name)]
        IN IF position_is_None(app_name)
           THEN /\ nav' = [n EXCEPT !.ret = "False"]
                /\ call' = NoCall
                /\ UNCHANGED <<prog, ws, token, connected, tokenFile, conns, co, tasks>>
           ELSE NavKey(EmptyBag, [n EXCEPT !.pc = "HOME"], <<"H","O","M","E">>)

\* the sleep of key("HOME") is over
navigate_DOWN ==
    /\ prog = "SamsungTV"
    /\ \E k \in Pending("sleep") :
        /\ k.nav.pc = "HOME"
        /\ NavKey(SetToBag({k}), [k.nav EXCEPT !.pc = "DOWN"], <<"D","O","W","N">>)

\* for i in range(position): after key("DOWN") with i = 0, after
\* key("RIGHT") with the next i
navigate_RIGHT ==
    /\ prog = "SamsungTV"
    /\ \E k \in Pending("sleep") :
        \/ /\ k.nav.pc = "DOWN"
           /\ 0 < k.nav.position
           /\ NavKey(SetToBag({k}), [k.nav EXCEPT !.pc = "RIGHT", !.i = 0],
                     <<"R","I","G","H","T">>)
        \/ /\ k.nav.pc = "RIGHT"
           /\ k.nav.i + 1 < k.nav.position
           /\ NavKey(SetToBag({k}), [k.nav EXCEPT !.i = @ + 1],
                     <<"R","I","G","H","T">>)

\* the loop is over
navigate_ENTER ==
    /\ prog = "SamsungTV"
    /\ \E k \in Pending("sleep") :
        /\ \/ k.nav.pc = "DOWN" /\ ~(0 < k.nav.position)
           \/ k.nav.pc = "RIGHT" /\ ~(k.nav.i + 1 < k.nav.position)
        /\ NavKey(SetToBag({k}), [k.nav EXCEPT !.pc = "ENTER"], <<"E","N","T","E","R">>)

(************************** tv_controller.py *******************************)
Call_SamsungRemote_connect ==
    /\ prog = "SamsungRemote"
    /\ \E e \in Imports :
        Step(EmptyBag, SamsungRemote_connect(Start("connect", <<>>), e), NotNavigating)

SamsungRemote_opened ==
    /\ prog = "SamsungRemote"
    /\ \E k \in Pending("open"), e \in Opening :
        /\ Room(e)
        /\ Step(SetToBag({k}), SamsungRemote_connect_opened(Resume(k), e), k.nav)

SamsungRemote_received ==
    /\ prog = "SamsungRemote"
    /\ \E k \in Pending("recv"), e \in Receiving :
        Step(SetToBag({k}), SamsungRemote_connect_received(Resume(k), e), k.nav)

Call_SamsungRemote_send_key ==
    /\ prog = "SamsungRemote"
    /\ \E k \in KeyNames, ok \in BOOLEAN :
        Step(EmptyBag, SamsungRemote_send_key(Start("key", k), k, ok), NotNavigating)

Call_SamsungRemote_launch_app ==
    /\ prog = "SamsungRemote"
    /\ \E a \in AppNames, ok \in BOOLEAN :
        Step(EmptyBag, SamsungRemote_launch_app(Start("app", a), a, ok), NotNavigating)

Call_SamsungRemote_disconnect ==
    /\ prog = "SamsungRemote"
    /\ CanClose
    /\ Step(EmptyBag, SamsungRemote_disconnect(Start("close", <<>>)), NotNavigating)

\* ws.close() returns to a disconnect() that awaits it
SamsungRemote_closed ==
    /\ prog = "SamsungRemote"
    /\ \E k \in Pending("close") :
        Step(SetToBag({k}), SamsungRemote_disconnect_closed(Resume(k)), k.nav)

(*************************** play_iplayer.py *******************************)
Call_SamsungTVAutomation_connect ==
    /\ prog = "SamsungTVAutomation"
    /\ \E e \in Imports :
        Step(EmptyBag, SamsungTVAutomation_connect(Start("connect", <<>>), e), NotNavigating)

SamsungTVAutomation_opened ==
    /\ prog = "SamsungTVAutomation"
    /\ \E k \in Pending("open"), e \in Opening :
        /\ Room(e)
        /\ Step(SetToBag({k}), SamsungTVAutomation_connect_opened(Resume(k), e), k.nav)

SamsungTVAutomation_received ==
    /\ prog = "SamsungTVAutomation"
    /\ \E k \in Pending("recv"), e \in Receiving :
        Step(SetToBag({k}), SamsungTVAutomation_connect_received(Resume(k), e), k.nav)

Call_SamsungTVAutomation_send_key ==
    /\ prog = "SamsungTVAutomation"
    /\ \E k \in KeyNames, ok \in BOOLEAN :
        Step(EmptyBag, SamsungTVAutomation_send_key(Start("key", k), k, ok), NotNavigating)

Call_SamsungTVAutomation_send_text ==
    /\ prog = "SamsungTVAutomation"
    /\ \E x \in Texts, ok \in BOOLEAN :
        Step(EmptyBag, SamsungTVAutomation_send_text(Start("text", x), x, ok), NotNavigating)

Call_SamsungTVAutomation_launch_app ==
    /\ prog = "SamsungTVAutomation"
    /\ \E a \in AppNames, ok \in BOOLEAN :
        Step(EmptyBag, SamsungTVAutomation_launch_app(Start("app", a), a, ok), NotNavigating)

Call_SamsungTVAutomation_close ==
    /\ prog = "SamsungTVAutomation"
    /\ CanClose
    /\ Step(EmptyBag, SamsungTVAutomation_close(Start("close", <<>>)), NotNavigating)

\* a new process, no token file yet
Fresh ==
    /\ prog \in Progs
    /\ ws = 0
    /\ token = None
    /\ connected = FALSE
    /\ tokenFile = None
    /\ conns = <<>>
    /\ co = EmptyBag
    /\ call = Begin("__init__", <<>>)
    /\ nav = NotNavigating

\* the scripts of the repository await one call after the other
Init == Fresh /\ tasks = 1

\* a script that has two calls on the client in flight at a time
InitConcurrent == Fresh /\ tasks = 2

Next ==
    \/ New
    \/ Call_SamsungTV_connect
    \/ Call_SamsungTV_key
    \/ Call_SamsungTV_text
    \/ Call_SamsungTV_app
    \/ Call_SamsungTV_close
    \/ SamsungTV_opened
    \/ SamsungTV_received
    \/ Call_navigate_to_app
    \/ navigate_DOWN
    \/ navigate_RIGHT
    \/ navigate_ENTER
    \/ Call_SamsungRemote_connect
    \/ SamsungRemote_opened
    \/ SamsungRemote_received
    \/ Call_SamsungRemote_send_key
    \/ Call_SamsungRemote_launch_app
    \/ Call_SamsungRemote_disconnect
    \/ SamsungRemote_closed
    \/ Call_SamsungTVAutomation_connect
    \/ SamsungTVAutomation_opened
    \/ SamsungTVAutomation_received
    \/ Call_SamsungTVAutomation_send_key
    \/ Call_SamsungTVAutomation_send_text
    \/ Call_SamsungTVAutomation_launch_app
    \/ Call_SamsungTVAutomation_close

Spec == Init /\ [][Next]_vars

SpecConcurrent == InitConcurrent /\ [][Next]_vars

(***************************************************************************)
(*                              the claims                                 *)
(***************************************************************************)
Sends == 1..Len(call.sent)
Delivered == { i \in Sends : call.sent[i].delivered }
IsCommand == call.op \in {"key", "text", "app"}

\* the command ran its own connect(), and that connect did not succeed
InnerConnectFailed == call.inner \notin {"", "True"}

\* C1: when SamsungTV.key is called on a client that is not connected and
\* the connect() it runs first fails, key returns a failure result and no
\* key-press frame is transmitted on any transport.
C1_LazyConnectFailureSendsNothing ==
    (prog = "SamsungTV" /\ call.op = "key" /\ InnerConnectFailed)
        => (call.ret = "False" /\ Delivered = {})

\* C2: after a connect() whose transport opens but whose handshake message
\* never arrives, connect has returned failure and the client is
\* Disconnected: not marked connected and holding no open handle; and no
\* command transmits a frame on a transport without a successful handshake.
C2_TimedOutConnectLeavesDisconnected ==
    /\ (prog \in {"SamsungTV", "SamsungRemote"} /\ call.op = "connect"
            /\ call.env.at = "recv_timeout")
        => (call.ret = "False" /\ ~connected /\ (ws = 0 \/ ~conns[ws].open))
    /\ (prog \in {"SamsungTV", "SamsungRemote"} /\ IsCommand)
        => \A i \in Delivered : call.sent[i].was.shaken

\* a handshake completed in the step just taken: a connect(), called
\* directly or by a command, received its message and returned True
Handshaken(c) ==
    /\ c.recvs > 0
    /\ \/ c.op = "connect" /\ c.ret = "True"
       \/ c.inner = "True"

\* C3: after a handshake returning a token the stored token (in memory, and
\* in the token file where the client keeps one) equals it; after a
\* handshake returning no token the stored token is unchanged; the token
\* file is written exactly when the handshake's token is present and
\* differs from the token held.
C3_TokenPersistence ==
    [][ (vars' # vars /\ prog \in {"SamsungTV", "SamsungRemote"} /\ Handshaken(call')) =>
          LET t == TokenOf(call'.env) IN
          /\ Truthy(t) => (token' = t /\ (prog = "SamsungTV" => tokenFile' = t))
          /\ t = None => (token' = token /\ tokenFile' = tokenFile)
          /\ prog = "SamsungTV" => ((call'.saved > 0) <=> (Truthy(t) /\ t # token)) ]_vars

\* the failure conditions of connect(): missing dependency, transport open
\* timeout or error, handshake receive timeout, malformed payload, a
\* message whose event is not "ms.channel.connect"
ConnectFailure(e) ==
    \/ e.at \in {"no_module", "open_timeout", "open_error", "recv_timeout"}
    \/ JsonRaises(e)
    \/ e.at = "message" /\ e.msg.json = "object" /\ e.msg.event # "ms.channel.connect"

\* C4: connect() never raises to its caller: on every failure condition it
\* returns False and reports a human-readable cause.
C4_ConnectNeverRaises ==
    (prog \in {"SamsungTV", "SamsungTVAutomation"} /\ call.op = "connect"
        /\ ConnectFailure(call.env))
        => (call.ret = "False" /\ call.said)

\* C5: after SamsungTV.close on a connected client the client is
\* Disconnected, so that a later command performs a fresh handshake before
\* transmitting and never sends on the transport that was closed.
C5_CloseDisconnects ==
    /\ (prog = "SamsungTV" /\ call.op = "close" /\ call.closed > 0) => ~connected
    /\ (prog = "SamsungTV" /\ IsCommand) => \A i \in Sends : call.sent[i].was.closes = 0

\* the client's own state: its fields, and whether its handle is open
ClientState == <<ws, token, connected, ws # 0 /\ conns[ws].open>>

\* C6: disconnect is idempotent: on a client that never connected or is
\* already closed it does nothing and raises nothing, a second call in a
\* row leaves the client as the first did, and the transport's close is
\* invoked at most once per opened transport.
C6_DisconnectIdempotent ==
    [][ /\ call'.op = "close" => call'.ret # "raise"
        /\ (call'.op = "close" /\ ws = 0) => UNCHANGED <<ws, token, connected, conns>>
        /\ (call.op = "close" /\ call'.op = "close") => ClientState' = ClientState
        /\ \A i \in DOMAIN conns' : conns'[i].closes <= 1 ]_vars

\* C7: in every reachable state a client instance has at most one open
\* transport.
C7_AtMostOneOpenTransport ==
    Cardinality({ i \in DOMAIN conns : conns[i].open }) <= 1

\* the key-name normalization of the class in use
normalize(x) ==
    CASE prog = "SamsungTV" -> SamsungTV_normalize(x)
      [] prog = "SamsungRemote" -> SamsungRemote_normalize(x)
      [] prog = "SamsungTVAutomation" -> SamsungTVAutomation_normalize(x)

\* C8: the key code a key call transmits for any name starts with "KEY_"
\* and is a fixed point of the normalization that produced it:
\* normalize(normalize(x)) = normalize(x).
C8_NormalizeIdempotent ==
    call.op = "key" =>
        \A i \in Delivered :
            LET code == call.sent[i].frame.DataOfCmd IN
            /\ startswith(code, KEY_)
            /\ normalize(code) = code

\* C9: the key code transmitted is uppercase and is the one transmitted for
\* every name that differs from the given one only in letter case.
C9_KeyNameCaseInsensitive ==
    call.op = "key" =>
        \A i \in Delivered :
            LET code == call.sent[i].frame.DataOfCmd IN
            /\ code = upper(code)
            /\ \A other \in KeyNames :
                  lower(other) = lower(call.arg) => normalize(other) = code

iplayer == <<"i", "p", "l", "a", "y", "e", "r">>

\* the static name table of the class in use, and whether a lookup misses
AppTable == IF prog = "SamsungTV" THEN APPS ELSE SamsungRemote_APPS
Misses(app) == \A e \in AppTable : e[1] # lower(app)

\* C10 as first stated: SamsungTV.app and SamsungRemote.launch_app both send
\* "iplayer" as appId "3201602007865", and send an identifier their table
\* does not hold exactly as given.
C10_IplayerResolvedByBoth ==
    (prog \in {"SamsungTV", "SamsungRemote"} /\ call.op = "app") =>
        \A i \in Delivered :
            LET appId == call.sent[i].frame.appId IN
            /\ call.arg = iplayer => appId = IPLAYER_APP_ID
            /\ (call.arg # iplayer /\ Misses(call.arg)) => appId = call.arg

\* C10: SamsungTV.app sends "iplayer" as appId "3201602007865";
\* SamsungRemote.launch_app, whose table has no "iplayer", sends it
\* unchanged; both send an identifier whose lowercased form is not a key of
\* their table exactly as given, letter case included.
C10_AppResolution ==
    (prog \in {"SamsungTV", "SamsungRemote"} /\ call.op = "app") =>
        \A i \in Delivered :
            LET appId == call.sent[i].frame.appId IN
            /\ (prog = "SamsungTV" /\ call.arg = iplayer) => appId = IPLAYER_APP_ID
            /\ (prog = "SamsungRemote" /\ call.arg = iplayer) => appId = iplayer
            /\ Misses(call.arg) => appId = call.arg

\* SamsungTV.app put "iplayer" on the wire as its app ID
C10_Witness_IplayerLaunched ==
    /\ prog = "SamsungTV"
    /\ call.op = "app"
    /\ call.arg = iplayer
    /\ \E i \in Delivered : call.sent[i].frame.appId = IPLAYER_APP_ID

\* C11: a send failure (the transport is closed, or fails, while a key,
\* text or app-launch frame is being sent) is reported to the caller as a
\* failure result and never leaves the command as an exception.
C11_SendFailureIsReturned ==
    (IsCommand /\ \E i \in Sends : ~call.sent[i].delivered)
        => (call.ret = "False")

\* C12: no retries.  One call of a command (key, text, app) makes at most
\* one connect attempt and at most one frame transmission, and one call of
\* connect opens at most one transport and awaits at most one handshake
\* message; a failed connect or send is not attempted again in the call.
C12_NoRetries ==
    /\ IsCommand => (call.connects <= 1 /\ Len(call.sent) <= 1)
    /\ (IsCommand \/ call.op = "connect") => (call.opened <= 1 /\ call.recvs <= 1)
    /\ call.op = "connect" => call.connects <= 1

\* a key call whose own connect failed after opening a transport and whose
\* send then failed: one connect attempt, one transport, one send
C12_Witness_FailedOnce ==
    /\ call.op = "key"
    /\ call.inner = "False"
    /\ call.ret = "raise"
    /\ call.connects = 1
    /\ call.opened = 1
    /\ Len(call.sent) = 1
    /\ ~call.sent[1].delivered

\* the frames of a navigation to position p: KEY_HOME, KEY_DOWN, p times
\* KEY_RIGHT, KEY_ENTER
ExpectedKeys(p) ==
    << <<"K","E","Y","_","H","O","M","E">>, <<"K","E","Y","_","D","O","W","N">> >>
    \o [k \in 1..p |-> <<"K","E","Y","_","R","I","G","H","T">>]
    \o << <<"K","E","Y","_","E","N","T","E","R">> >>

IsPrefix(a, b) == Len(a) <= Len(b) /\ SubSeq(b, 1, Len(a)) = a

NavEnded == nav.pc = "idle" /\ nav.ret # ""
NavKnown(n) == \E e \in APP_POSITIONS : e[1] = app_key(n.app_name)
NavPosition(n) == (CHOOSE e \in APP_POSITIONS : e[1] = app_key(n.app_name))[2]

\* the calls of navigate_to_app that have not ended
Navigating == { k.nav : k \in { c \in BagToSet(co) : c.nav.pc # "idle" } }

\* C13: navigate_to_app on a connected client returns False and transmits
\* no frame for an app name whose normalized form is not in APP_POSITIONS;
\* for a known app at position p it returns True after transmitting exactly
\* the p+3 frames KEY_HOME, KEY_DOWN, p times KEY_RIGHT, KEY_ENTER, in this
\* order, each after the one before it.
C13_NavigateSequence ==
    /\ (NavEnded /\ nav.was_connected /\ ~NavKnown(nav)) =>
          (nav.ret = "False" /\ nav.sent = <<>>)
    /\ (NavEnded /\ nav.was_connected /\ NavKnown(nav)) =>
          (nav.ret = "True" /\ nav.sent = ExpectedKeys(NavPosition(nav)))
    /\ \A n \in Navigating :
          n.was_connected => IsPrefix(n.sent, ExpectedKeys(NavPosition(n)))

\* what does hold of navigate_to_app, connected or not: when it returns True
\* it has transmitted exactly the p+3 frames in order, when it returns False
\* it has transmitted none, and what it has transmitted so far is always the
\* beginning of that sequence
NavigateFramesWhenReturned ==
    /\ (NavEnded /\ nav.ret = "True") =>
          (NavKnown(nav) /\ nav.sent = ExpectedKeys(NavPosition(nav)))
    /\ (NavEnded /\ nav.ret = "False") => (~NavKnown(nav) /\ nav.sent = <<>>)
    /\ (NavEnded /\ ~NavKnown(nav)) => nav.ret = "False"
    /\ (NavEnded /\ NavKnown(nav)) => IsPrefix(nav.sent, ExpectedKeys(NavPosition(nav)))
    /\ \A n \in Navigating : IsPrefix(n.sent, ExpectedKeys(NavPosition(n)))

=============================================================================
